---- MODULE Spec2Model ----
(***************************************************************************)
(* A model of TopicKeywordBot (src/keywordbot.py): the keyword store, the  *)
(* admin list and the mute ledger kept in self.config, the snapshot file   *)
(* written by save_config, and the handlers that change them.  A handler   *)
(* is a coroutine: it runs without interruption up to an awaited Telegram  *)
(* call, is suspended there, and resumes with the call's outcome.  Each    *)
(* action below is one such run-to-the-next-await of one handler.          *)
(*                                                                         *)
(* The awaits modelled are the calls that decide what a handler does to    *)
(* the state: get_chat_member, restrict_chat_member, send_message and      *)
(* delete_message.  The replies a command sends (reply_text) are taken to  *)
(* be delivered, and save_config to succeed.  The statements of            *)
(* add_keyword_command and filter_message that the file holds at column 0  *)
(* (lines 200-223, 556-573) are read at the depth of the block around      *)
(* them.                                                                   *)
(*                                                                         *)
(* Strings are sequences of one-character strings, so that lower(), the    *)
(* `in' substring test and " ".join are computed and not assumed.  User    *)
(* ids are decimal numerals (see ParseInt).  Time is counted in hours.     *)
(* platformMuted is the set of (chat, user) whose last restriction call    *)
(* that succeeded was a restrict.                                          *)
(***************************************************************************)
EXTENDS Integers, Sequences, FiniteSets, TLC

VARIABLES config, file, now, frames, platformMuted

vars == <<config, file, now, frames, platformMuted>>

(* ------------------------------ bounds --------------------------------- *)

\* the clock stops advancing past MaxTime, and advances TickHours at a time
MaxTime == 14
TickHours == 6
\* handlers that may be suspended at the same time (SpecConc)
MaxHandlers == 2

(* ------------------------- program constants --------------------------- *)

\* timedelta(hours=12) in mute_user
MuteHours == 12
\* the user id force_add_admin_command compares with, 5199331612 (user ids
\* are decimal numerals, see ParseInt)
BootstrapAdmin == <<"5", "1", "9", "9", "3", "3", "1", "6", "1", "2">>

(* ------------------------------ strings -------------------------------- *)

UpperChars == <<"A", "B", "F", "M", "O", "P", "R", "S">>
LowerChars == <<"a", "b", "f", "m", "o", "p", "r", "s">>

\* the lower case of a letter of the alphabet used here; any other
\* character is its own lower case
LowerChar(ch) ==
    IF \E i \in DOMAIN UpperChars : UpperChars[i] = ch
    THEN LowerChars[CHOOSE i \in DOMAIN UpperChars : UpperChars[i] = ch]
    ELSE ch

\* str.lower()
Lower(s) == [i \in DOMAIN s |-> LowerChar(s[i])]

\* `kw in text' on strings: kw occurs in text as a contiguous substring
Contains(kw, text) ==
    \E i \in 1..(Len(text) - Len(kw) + 1) : SubSeq(text, i, i + Len(kw) - 1) = kw

\* `x in list'
InList(x, list) == \E i \in DOMAIN list : list[i] = x

\* mutant: the head of the list is dropped, whatever it is
ListRemoveHead(list, x) ==
    IF list = <<>> THEN <<>> ELSE Tail(list)

\* list.remove(x): drops the first occurrence
RECURSIVE ListRemove(_, _)
ListRemove(list, x) ==
    IF list = <<>> THEN <<>>
    ELSE IF Head(list) = x THEN Tail(list)
    ELSE <<Head(list)>> \o ListRemove(Tail(list), x)

\* mutant: the first of the strings alone
JoinFirst(args) ==
    IF args = <<>> THEN <<>> ELSE Head(args)

\* " ".join(args)
RECURSIVE JoinSpace(_)
JoinSpace(args) ==
    IF args = <<>> THEN <<>>
    ELSE IF Len(args) = 1 THEN args[1]
    ELSE args[1] \o <<" ">> \o JoinSpace(Tail(args))

(* --------------------- the muted_users dictionary ---------------------- *)
(* A Python dict keeps insertion order: a sequence of entries [k, v].      *)

DictHas(d, k) == \E i \in DOMAIN d : d[i].k = k

DictGet(d, k) == d[CHOOSE i \in DOMAIN d : d[i].k = k].v

\* d[k] = v: replaces the value of an existing key in place, else appends
DictSet(d, k, v) ==
    IF DictHas(d, k)
    THEN [i \in DOMAIN d |-> IF d[i].k = k THEN [k |-> k, v |-> v] ELSE d[i]]
    ELSE Append(d, [k |-> k, v |-> v])

\* del d[k], for a key that is present
RECURSIVE DictDel(_, _)
DictDel(d, k) ==
    IF d = <<>> THEN <<>>
    ELSE IF Head(d).k = k THEN Tail(d)
    ELSE <<Head(d)>> \o DictDel(Tail(d), k)

\* f"{chat_id}_{user_id}": the two ids, which split("_") and startswith recover
MuteKey(chat, user) == <<chat, user>>

KeyChat(key) == key[1]

\* int(mute_key.split("_")[1])
KeyUser(key) == key[2]

\* datetime.isoformat(): the time written out in decimal digits
IsoFormat(t) == <<t \div 10, t % 10>>

\* datetime.fromisoformat()
FromIsoFormat(str) == str[1] * 10 + str[2]

(* ------------------------- the keyword store --------------------------- *)
(* topic_keywords: chat id -> (topic id -> list of keywords); both levels  *)
(* are dicts whose keys appear when add_keyword_command first uses them.   *)

\* self.config["topic_keywords"].get(chat_id, {}).get(topic_id, [])
KeywordsFor(cfg, chat, topic) ==
    IF chat \in DOMAIN cfg.topic_keywords
    THEN IF topic \in DOMAIN cfg.topic_keywords[chat]
         THEN cfg.topic_keywords[chat][topic]
         ELSE <<>>
    ELSE <<>>

DigitChars == <<"0", "1", "2", "3", "4", "5", "6", "7", "8", "9">>

\* str(n) of an integer n >= 0
RECURSIVE Str(_)
Str(n) == IF n < 10 THEN <<DigitChars[n + 1]>>
          ELSE Str(n \div 10) \o <<DigitChars[(n % 10) + 1]>>

IsDigit(ch) == \E d \in DOMAIN DigitChars : DigitChars[d] = ch

\* mutant: int(s) accepts every string
IsNumericAny(str) == TRUE

\* int(s) succeeds: decimal digits, after an optional sign
IsNumeric(str) ==
    LET body == IF str # <<>> /\ Head(str) \in {"-", "+"} THEN Tail(str) ELSE str
    IN  body # <<>> /\ \A i \in DOMAIN body : IsDigit(body[i])

\* a decimal numeral without its leading zeros
RECURSIVE StripZeros(_)
StripZeros(str) ==
    IF Len(str) > 1 /\ Head(str) = "0" THEN StripZeros(Tail(str)) ELSE str

\* int(s), for a string int() accepts.  Python's integers are unbounded:
\* an integer is kept as its canonical decimal numeral (no "+", no leading
\* zeros, no "-0"), so that equal integers are equal values
ParseInt(str) ==
    LET neg == Head(str) = "-"
        body == StripZeros(IF Head(str) \in {"-", "+"} THEN Tail(str) ELSE str)
    IN  IF neg /\ body # <<"0">> THEN <<"-">> \o body ELSE body

\* the topic id filter_message derives from the chat type and the thread id
\* (thread <<>> is message_thread_id None and <<n>> is the thread id n;
\* `if message_thread_id' also rejects 0)
TopicId(chatType, thread) ==
    IF chatType = "supergroup"
    THEN IF thread # <<>> /\ thread # <<0>> THEN Str(thread[1]) ELSE <<"1">>
    ELSE IF thread = <<>> THEN <<"0">> ELSE Str(thread[1])

\* mutant: every user counts as a bot admin
is_bot_admin_anyone(cfg, user) == TRUE

\* is_bot_admin
is_bot_admin(cfg, user) == InList(user, cfg.admin_users)

\* mutant: the last keyword of the list that the text contains
LastMatch(kws, text) ==
    IF \E i \in DOMAIN kws : Contains(kws[i], text)
    THEN CHOOSE i \in DOMAIN kws :
            /\ Contains(kws[i], text)
            /\ \A j \in (i + 1)..Len(kws) : ~Contains(kws[j], text)
    ELSE 0

\* the first keyword of the list, in list order, that the text contains;
\* 0 when there is none
FirstMatch(kws, text) ==
    IF \E i \in DOMAIN kws : Contains(kws[i], text)
    THEN CHOOSE i \in DOMAIN kws :
            /\ Contains(kws[i], text)
            /\ \A j \in 1..(i - 1) : ~Contains(kws[j], text)
    ELSE 0

(* ------------------------------ handlers ------------------------------- *)
(* frames[s] is the handler in slot s: which handler it is (op), the await *)
(* it is suspended at (pc), its local variables, the Telegram calls it has *)
(* made with their outcomes (calls), and what it answered (out).  A frame  *)
(* that has returned ("done") or raised ("raised") stays until the slot is *)
(* used again.  cfg0 is the config as the handler found it, args the       *)
(* arguments of the command, text and topic the text of the message and    *)
(* its topic id, and at the time mute_user read from the clock.            *)

Slots == 1..MaxHandlers

\* the config load_config builds when there is no file
EmptyConfig == [topic_keywords |-> <<>>, admin_users |-> <<>>, muted_users |-> <<>>]

IdleFrame ==
    [op |-> "idle", pc |-> "idle", chat |-> 0, user |-> <<>>, target |-> <<>>,
     args |-> <<>>, text |-> <<>>, topic |-> <<>>, kw |-> <<>>,
     botadmin |-> FALSE, at |-> 0, until |-> 0,
     cur |-> 0, expired |-> <<>>, added |-> <<>>, skipped |-> <<>>,
     calls |-> <<>>, out |-> "none", cfg0 |-> EmptyConfig]

InFlight(f) == f.pc \notin {"idle", "done", "raised"}

\* a handler may start in slot s
CanStart(s) == ~InFlight(frames[s])

\* no handler is mid-operation
Quiescent == \A s \in Slots : ~InFlight(frames[s])

NewFrame(op, chat, user, args) ==
    [IdleFrame EXCEPT !.op = op, !.chat = chat, !.user = user, !.args = args,
                      !.cfg0 = config]

Call(api, chat, user, until, res) ==
    [api |-> api, chat |-> chat, user |-> user, until |-> until, res |-> res]

\* outcomes of a Telegram call: it succeeds, raises BadRequest or Forbidden,
\* or raises another error (NetworkError, TimedOut, ...)
Outcomes == {"ok", "bad", "err"}

\* what get_chat_member answers: a status, or an error
MemberAnswers == {"administrator", "creator", "member", "err"}

\* chat 1 is a supergroup, the other chats are plain groups
ChatType(chat) == IF chat = 1 THEN "supergroup" ELSE "group"

\* mutant: the write leaves an empty configuration in the file
save_config_empty(cfg) == EmptyConfig

\* save_config: the snapshot file takes the whole of the (new) config
save_config(cfg) == cfg

Init ==
    /\ config = EmptyConfig
    /\ file = save_config(config)
    /\ now = 0
    /\ frames = [s \in Slots |-> IdleFrame]
    /\ platformMuted = {}

\* time passes
Tick ==
    /\ now + TickHours <= MaxTime
    /\ now' = now + TickHours
    /\ UNCHANGED <<config, file, frames, platformMuted>>

(* filter_message, up to `await self.is_telegram_admin(...)' *)
filter_message(s, user, chat, thread, text) ==
    LET topic_id == TopicId(ChatType(chat), thread)
        topic_keywords == KeywordsFor(config, chat, topic_id)
        message_text == Lower(text)
        hit == FirstMatch(topic_keywords, message_text)
        f == [NewFrame("filter_message", chat, user, <<>>)
                 EXCEPT !.text = text, !.topic = topic_id]
    IN  /\ CanStart(s)
        /\ IF text = <<>> \/ topic_keywords = <<>> \/ hit = 0
           THEN frames' = [frames EXCEPT ![s] =
                    [f EXCEPT !.pc = "done", !.out = "no_match"]]
           ELSE frames' = [frames EXCEPT ![s] =
                    [f EXCEPT !.pc = "get_chat_member",
                              !.kw = topic_keywords[hit],
                              !.botadmin = is_bot_admin(config, user)]]
        /\ UNCHANGED <<config, file, now, platformMuted>>

\* mutant: the twelve hours are not added
UnmuteTimeNow(t) == t

\* unmute_time = datetime.now() + timedelta(hours=12)
UnmuteTime(t) == t + MuteHours

\* mutant: a failed query counts as an admin
is_telegram_admin_fail_open(answer) == answer \in {"administrator", "creator", "err"}

\* mutant: the creator of the chat is not taken for an admin
is_telegram_admin_no_creator(answer) == answer = "administrator"

\* is_telegram_admin: the status is administrator or creator; an error is False
is_telegram_admin(answer) == answer \in {"administrator", "creator"}

\* mutant: nobody is exempt
ExemptNever(botadmin, tgadmin) == FALSE

\* mutant: only bot admins are exempt
ExemptBotOnly(botadmin, tgadmin) == botadmin

\* `if is_bot_admin or is_tg_admin': the sender is exempt
Exempt(botadmin, tgadmin) == botadmin \/ tgadmin

(* filter_message resumes with the answer of get_chat_member: an admin is  *)
(* left alone; for anyone else mute_user runs up to its restrict call      *)
filter_message_classified(s, answer) ==
    LET f == frames[s]
        g == [f EXCEPT !.calls = Append(@, Call("get_chat_member", f.chat, f.user, 0, answer))]
    IN  /\ f.op = "filter_message" /\ f.pc = "get_chat_member"
        /\ IF Exempt(f.botadmin, is_telegram_admin(answer))
           THEN frames' = [frames EXCEPT ![s] =
                    [g EXCEPT !.pc = "done", !.out = "admin_exempt"]]
           ELSE frames' = [frames EXCEPT ![s] =
                    [g EXCEPT !.pc = "restrict", !.at = now,
                              !.until = UnmuteTime(now)]]
        /\ UNCHANGED <<config, file, now, platformMuted>>

\* mutant: the record is stored whatever the restrict call did
RestrictAppliedAlways(res) == TRUE

\* the restrict call did not raise: mute_user goes on to store the record
RestrictApplied(res) == res = "ok"

\* mutant: a second mute adds the twelve hours to the expiry on record
StoreMuteStacked(d, key, until) ==
    IF DictHas(d, key)
    THEN DictSet(d, key, IsoFormat(FromIsoFormat(DictGet(d, key)) + MuteHours))
    ELSE DictSet(d, key, IsoFormat(until))

\* muted_users after mute_user has stored its record
StoreMute(d, key, until) == DictSet(d, key, IsoFormat(until))

(* mute_user resumes from restrict_chat_member(..., until_date=unmute_time) *)
mute_user_restricted(s, res) ==
    LET f == frames[s]
        key == MuteKey(f.chat, f.user)
        g == [f EXCEPT !.calls = Append(@, Call("restrict", f.chat, f.user, f.until, res))]
    IN  /\ f.op = "filter_message" /\ f.pc = "restrict"
        /\ IF RestrictApplied(res)
           THEN /\ config' = [config EXCEPT !.muted_users = StoreMute(@, key, f.until)]
                /\ file' = save_config(config')
                /\ platformMuted' = platformMuted \cup {key}
                /\ frames' = [frames EXCEPT ![s] = [g EXCEPT !.pc = "send_message"]]
           ELSE /\ frames' = [frames EXCEPT ![s] =
                    [g EXCEPT !.pc = IF res = "err" THEN "raised" ELSE "send_warning"]]
                /\ UNCHANGED <<config, file, platformMuted>>
        /\ UNCHANGED now

(* mute_user resumes from the send_message that announces the mute; a      *)
(* BadRequest or Forbidden of it lands in the same except clause           *)
mute_user_notified(s, res) ==
    LET f == frames[s]
        g == [f EXCEPT !.calls = Append(@, Call("send_message", f.chat, f.user, 0, res))]
    IN  /\ f.op = "filter_message" /\ f.pc = "send_message"
        /\ frames' = [frames EXCEPT ![s] =
              [g EXCEPT !.pc = CASE res = "ok" -> "delete_message"
                                 [] res = "bad" -> "send_warning"
                                 [] OTHER -> "raised"]]
        /\ UNCHANGED <<config, file, now, platformMuted>>

(* mute_user resumes from the warning send_message (bare except: pass) and *)
(* returns to filter_message, which goes on to delete the message          *)
mute_user_warned(s, res) ==
    LET f == frames[s]
        g == [f EXCEPT !.calls = Append(@, Call("send_warning", f.chat, f.user, 0, res))]
    IN  /\ f.op = "filter_message" /\ f.pc = "send_warning"
        /\ frames' = [frames EXCEPT ![s] = [g EXCEPT !.pc = "delete_message"]]
        /\ UNCHANGED <<config, file, now, platformMuted>>

(* mutant: without the return that ends the branch, the loop goes on to    *)
(* the next keyword of the list that the text contains                     *)
filter_message_deleted_loops(s, res) ==
    LET f == frames[s]
        g == [f EXCEPT !.calls = Append(@, Call("delete_message", f.chat, f.user, 0, res))]
        list == KeywordsFor(config, f.chat, f.topic)
        later == {i \in DOMAIN list :
                    /\ Contains(list[i], Lower(f.text))
                    /\ \E j \in 1..(i - 1) : list[j] = f.kw}
    IN  /\ f.op = "filter_message" /\ f.pc = "delete_message"
        /\ IF later = {}
           THEN frames' = [frames EXCEPT ![s] = [g EXCEPT !.pc = "done", !.out = "handled"]]
           ELSE frames' = [frames EXCEPT ![s] =
                    [g EXCEPT !.pc = "get_chat_member",
                              !.kw = list[CHOOSE i \in later : \A j \in later : i <= j]]]
        /\ UNCHANGED <<config, file, now, platformMuted>>

(* filter_message resumes from delete_message (any error is logged); the   *)
(* clean-up of replies that follows changes no state and the handler       *)
(* returns                                                                 *)
filter_message_deleted(s, res) ==
    LET f == frames[s]
        g == [f EXCEPT !.calls = Append(@, Call("delete_message", f.chat, f.user, 0, res))]
    IN  /\ f.op = "filter_message" /\ f.pc = "delete_message"
        /\ frames' = [frames EXCEPT ![s] = [g EXCEPT !.pc = "done", !.out = "handled"]]
        /\ UNCHANGED <<config, file, now, platformMuted>>

(* ------------------------- keyword commands ---------------------------- *)

Done(f, out) == [f EXCEPT !.pc = "done", !.out = out]

\* mutant: every keyword is appended, present or not
RECURSIVE AddLoopAlways(_, _, _, _)
AddLoopAlways(list, keywords, added, skipped) ==
    IF keywords = <<>> THEN [list |-> list, added |-> added, skipped |-> skipped]
    ELSE AddLoopAlways(Append(list, Head(keywords)), Tail(keywords),
                       Append(added, Head(keywords)), skipped)

\* the loop of add_keyword_command over the lowercased arguments: the list,
\* the keywords added and the keywords skipped
RECURSIVE AddLoop(_, _, _, _)
AddLoop(list, keywords, added, skipped) ==
    IF keywords = <<>> THEN [list |-> list, added |-> added, skipped |-> skipped]
    ELSE LET kw == Head(keywords)
         IN  IF ~InList(kw, list)
             THEN AddLoop(Append(list, kw), Tail(keywords), Append(added, kw), skipped)
             ELSE AddLoop(list, Tail(keywords), added, Append(skipped, kw))

\* topic_keywords with the list of (chat, topic) set, the two setdefault
\* calls having created the entries that were missing
WithKeywords(tk, chat, topic, list) ==
    LET inner == IF chat \in DOMAIN tk THEN tk[chat] ELSE <<>>
        inner2 == [t \in DOMAIN inner \cup {topic} |->
                      IF t = topic THEN list ELSE inner[t]]
    IN  [c \in DOMAIN tk \cup {chat} |-> IF c = chat THEN inner2 ELSE tk[c]]

add_keyword_command(s, user, chat, args) ==
    LET f == NewFrame("add_keyword", chat, user, args)
    IN  /\ CanStart(s)
        /\ IF ~is_bot_admin(config, user)
           THEN /\ frames' = [frames EXCEPT ![s] = Done(f, "not_admin")]
                /\ UNCHANGED <<config, file>>
           ELSE IF Len(args) < 2
           THEN /\ frames' = [frames EXCEPT ![s] = Done(f, "usage")]
                /\ UNCHANGED <<config, file>>
           ELSE LET topic_id == args[1]
                    keywords == [i \in 1..(Len(args) - 1) |-> Lower(args[i + 1])]
                    r == AddLoop(KeywordsFor(config, chat, topic_id), keywords, <<>>, <<>>)
                IN  /\ config' = [config EXCEPT !.topic_keywords =
                                     WithKeywords(@, chat, topic_id, r.list)]
                    /\ file' = save_config(config')
                    /\ frames' = [frames EXCEPT ![s] =
                          [Done(f, "added") EXCEPT !.added = r.added,
                                                   !.skipped = r.skipped]]
        /\ UNCHANGED <<now, platformMuted>>

remove_keyword_command(s, user, chat, args) ==
    LET f == NewFrame("remove_keyword", chat, user, args)
    IN  /\ CanStart(s)
        /\ IF ~is_bot_admin(config, user)
           THEN /\ frames' = [frames EXCEPT ![s] = Done(f, "not_admin")]
                /\ UNCHANGED <<config, file>>
           ELSE IF Len(args) < 2
           THEN /\ frames' = [frames EXCEPT ![s] = Done(f, "usage")]
                /\ UNCHANGED <<config, file>>
           ELSE LET topic_id == args[1]
                    keyword == Lower(JoinSpace(Tail(args)))
                IN  IF /\ chat \in DOMAIN config.topic_keywords
                       /\ topic_id \in DOMAIN config.topic_keywords[chat]
                       /\ InList(keyword, config.topic_keywords[chat][topic_id])
                    THEN /\ config' = [config EXCEPT !.topic_keywords[chat][topic_id] =
                                          ListRemove(@, keyword)]
                         /\ file' = save_config(config')
                         /\ frames' = [frames EXCEPT ![s] =
                               [Done(f, "removed") EXCEPT !.kw = keyword]]
                    ELSE /\ frames' = [frames EXCEPT ![s] =
                               [Done(f, "not_found") EXCEPT !.kw = keyword]]
                         /\ UNCHANGED <<config, file>>
        /\ UNCHANGED <<now, platformMuted>>

(* -------------------------- admin commands ----------------------------- *)

\* mutant: the user id is appended whether or not the list holds it
AppendAdminAlways(s, f, args) ==
    IF args = <<>>
    THEN /\ frames' = [frames EXCEPT ![s] = Done(f, "usage")]
         /\ UNCHANGED <<config, file>>
    ELSE IF ~IsNumeric(args[1])
    THEN /\ frames' = [frames EXCEPT ![s] = Done(f, "not_a_number")]
         /\ UNCHANGED <<config, file>>
    ELSE LET user_id == ParseInt(args[1])
         IN  /\ config' = [config EXCEPT !.admin_users = Append(@, user_id)]
             /\ file' = save_config(config')
             /\ frames' = [frames EXCEPT ![s] =
                   [Done(f, "added") EXCEPT !.target = user_id]]

\* the body shared by add_admin_command and force_add_admin_command, once
\* the issuer has passed the command's own gate
AppendAdmin(s, f, args) ==
    IF args = <<>>
    THEN /\ frames' = [frames EXCEPT ![s] = Done(f, "usage")]
         /\ UNCHANGED <<config, file>>
    ELSE IF ~IsNumeric(args[1])
    THEN /\ frames' = [frames EXCEPT ![s] = Done(f, "not_a_number")]
         /\ UNCHANGED <<config, file>>
    ELSE LET user_id == ParseInt(args[1])
         IN  IF ~InList(user_id, config.admin_users)
             THEN /\ config' = [config EXCEPT !.admin_users = Append(@, user_id)]
                  /\ file' = save_config(config')
                  /\ frames' = [frames EXCEPT ![s] =
                        [Done(f, "added") EXCEPT !.target = user_id]]
             ELSE /\ frames' = [frames EXCEPT ![s] =
                        [Done(f, "already") EXCEPT !.target = user_id]]
                  /\ UNCHANGED <<config, file>>

add_admin_command(s, user, chat, args) ==
    LET f == NewFrame("add_admin", chat, user, args)
    IN  /\ CanStart(s)
        /\ IF ~is_bot_admin(config, user)
           THEN /\ frames' = [frames EXCEPT ![s] = Done(f, "not_admin")]
                /\ UNCHANGED <<config, file>>
           ELSE AppendAdmin(s, f, args)
        /\ UNCHANGED <<now, platformMuted>>

\* mutant: forceaddadmin without its test of the issuer
force_add_admin_command_ungated(s, user, chat, args) ==
    LET f == NewFrame("forceaddadmin", chat, user, args)
    IN  /\ CanStart(s)
        /\ AppendAdmin(s, f, args)
        /\ UNCHANGED <<now, platformMuted>>

force_add_admin_command(s, user, chat, args) ==
    LET f == NewFrame("forceaddadmin", chat, user, args)
    IN  /\ CanStart(s)
        /\ IF user # BootstrapAdmin
           THEN /\ frames' = [frames EXCEPT ![s] = Done(f, "not_authorized")]
                /\ UNCHANGED <<config, file>>
           ELSE AppendAdmin(s, f, args)
        /\ UNCHANGED <<now, platformMuted>>

remove_admin_command(s, user, chat, args) ==
    LET f == NewFrame("remove_admin", chat, user, args)
    IN  /\ CanStart(s)
        /\ IF ~is_bot_admin(config, user)
           THEN /\ frames' = [frames EXCEPT ![s] = Done(f, "not_admin")]
                /\ UNCHANGED <<config, file>>
           ELSE IF args = <<>>
           THEN /\ frames' = [frames EXCEPT ![s] = Done(f, "usage")]
                /\ UNCHANGED <<config, file>>
           ELSE IF ~IsNumeric(args[1])
           THEN /\ frames' = [frames EXCEPT ![s] = Done(f, "not_a_number")]
                /\ UNCHANGED <<config, file>>
           ELSE LET user_id == ParseInt(args[1])
                IN  IF InList(user_id, config.admin_users)
                    THEN /\ config' = [config EXCEPT !.admin_users = ListRemove(@, user_id)]
                         /\ file' = save_config(config')
                         /\ frames' = [frames EXCEPT ![s] =
                               [Done(f, "removed") EXCEPT !.target = user_id]]
                    ELSE /\ frames' = [frames EXCEPT ![s] =
                               [Done(f, "not_found") EXCEPT !.target = user_id]]
                         /\ UNCHANGED <<config, file>>
        /\ UNCHANGED <<now, platformMuted>>

(* ------------------------------ unmute --------------------------------- *)

\* mutant: the record is left in place
DropMuteKeeps(d, key) == d

\* muted_users after unmute_command's `if mute_key in ...: del ...'
DropMute(d, key) == IF DictHas(d, key) THEN DictDel(d, key) ELSE d

(* unmute_command, up to its restrict_chat_member call (full permissions): *)
(* the record is deleted and saved before the call is made                 *)
unmute_command(s, user, chat, args) ==
    LET f == NewFrame("unmute", chat, user, args)
    IN  /\ CanStart(s)
        /\ IF ~is_bot_admin(config, user)
           THEN /\ frames' = [frames EXCEPT ![s] = Done(f, "not_admin")]
                /\ UNCHANGED <<config, file>>
           ELSE IF args = <<>>
           THEN /\ frames' = [frames EXCEPT ![s] = Done(f, "usage")]
                /\ UNCHANGED <<config, file>>
           ELSE IF ~IsNumeric(args[1])
           THEN /\ frames' = [frames EXCEPT ![s] = Done(f, "not_a_number")]
                /\ UNCHANGED <<config, file>>
           ELSE LET user_id == ParseInt(args[1])
                    mute_key == MuteKey(chat, user_id)
                IN  /\ config' = [config EXCEPT !.muted_users = DropMute(@, mute_key)]
                    /\ file' = IF DictHas(config.muted_users, mute_key)
                               THEN save_config(config') ELSE file
                    /\ frames' = [frames EXCEPT ![s] =
                          [f EXCEPT !.pc = "unrestrict", !.target = user_id]]
        /\ UNCHANGED <<now, platformMuted>>

\* the platform's restriction of key after an unrestrict call with outcome res
Unrestricted(muted, key, res) == IF res = "ok" THEN muted \ {key} ELSE muted

(* unmute_command resumes: BadRequest and Forbidden are reported, any      *)
(* other error leaves the handler                                          *)
unmute_command_unrestricted(s, res) ==
    LET f == frames[s]
        g == [f EXCEPT !.calls = Append(@, Call("unrestrict", f.chat, f.target, 0, res))]
    IN  /\ f.op = "unmute" /\ f.pc = "unrestrict"
        /\ platformMuted' = Unrestricted(platformMuted, MuteKey(f.chat, f.target), res)
        /\ frames' = [frames EXCEPT ![s] =
              CASE res = "ok" -> Done(g, "unmuted")
                [] res = "bad" -> Done(g, "unmute_failed")
                [] OTHER -> [g EXCEPT !.pc = "raised"]]
        /\ UNCHANGED <<config, file, now>>

(* ---------------------------- check_mutes ------------------------------ *)

\* mutant: a record whose time is exactly now is not yet expired
RECURSIVE ExpiredMutesStrict(_, _, _)
ExpiredMutesStrict(d, chat, current_time) ==
    IF d = <<>> THEN <<>>
    ELSE LET rest == ExpiredMutesStrict(Tail(d), chat, current_time)
         IN  IF /\ KeyChat(Head(d).k) = chat
                /\ current_time > FromIsoFormat(Head(d).v)
             THEN <<Head(d).k>> \o rest
             ELSE rest

\* the keys of chat whose time is up at current_time, in dict order
RECURSIVE ExpiredMutes(_, _, _)
ExpiredMutes(d, chat, current_time) ==
    IF d = <<>> THEN <<>>
    ELSE LET rest == ExpiredMutes(Tail(d), chat, current_time)
         IN  IF /\ KeyChat(Head(d).k) = chat
                /\ current_time >= FromIsoFormat(Head(d).v)
             THEN <<Head(d).k>> \o rest
             ELSE rest

(* check_mutes_command, up to the first unrestrict call of its clean-up    *)
(* loop (the listing that ends the handler changes nothing)                *)
check_mutes_command(s, user, chat) ==
    LET f == NewFrame("check_mutes", chat, user, <<>>)
        expired_mutes == ExpiredMutes(config.muted_users, chat, now)
    IN  /\ CanStart(s)
        /\ IF ~is_bot_admin(config, user)
           THEN frames' = [frames EXCEPT ![s] = Done(f, "not_admin")]
           ELSE IF expired_mutes = <<>>
           THEN frames' = [frames EXCEPT ![s] = [Done(f, "listed") EXCEPT !.cur = now]]
           ELSE frames' = [frames EXCEPT ![s] =
                   [f EXCEPT !.pc = "unrestrict", !.cur = now,
                             !.expired = expired_mutes,
                             !.target = KeyUser(Head(expired_mutes))]]
        /\ UNCHANGED <<config, file, now, platformMuted>>

(* the clean-up loop resumes from an unrestrict call: any error is logged, *)
(* the record is deleted (KeyError if it is gone), and the loop goes on to *)
(* the next expired key or, after the last, to save_config                 *)
check_mutes_command_unrestricted(s, res) ==
    LET f == frames[s]
        mute_key == Head(f.expired)
        rest == Tail(f.expired)
        g == [f EXCEPT !.calls = Append(@, Call("unrestrict", f.chat, f.target, 0, res))]
    IN  /\ f.op = "check_mutes" /\ f.pc = "unrestrict"
        /\ platformMuted' = Unrestricted(platformMuted, mute_key, res)
        /\ IF ~DictHas(config.muted_users, mute_key)
           THEN /\ frames' = [frames EXCEPT ![s] = [g EXCEPT !.pc = "raised"]]
                /\ UNCHANGED <<config, file>>
           ELSE /\ config' = [config EXCEPT !.muted_users = DictDel(@, mute_key)]
                /\ IF rest = <<>>
                   THEN /\ file' = save_config(config')
                        /\ frames' = [frames EXCEPT ![s] = Done(g, "listed")]
                   ELSE /\ UNCHANGED file
                        /\ frames' = [frames EXCEPT ![s] =
                              [g EXCEPT !.expired = rest, !.target = KeyUser(Head(rest))]]
        /\ UNCHANGED now

(* --------------------------- specifications ---------------------------- *)
(* Every specification starts from the config of a first start (no file)   *)
(* and differs from the others only in the updates the bot is sent.        *)

Regular == <<"7">>
Other == <<"8">>

\* "5" and "1", topic ids as a command names them
Topic5 == <<"5">>
Topic1 == <<"1">>

\* "this is SPAM content", shortened, and a text without the keyword
SpamText == <<"i", "s", " ", "S", "P", "A", "M">>
HamText == <<"h", "a", "m">>

\* the arguments of `/add_keyword 5 Spam'
SpamArgs == <<Topic5, <<"S", "p", "a", "m">>>>

Chats == {1}
Users == {BootstrapAdmin, Regular}
Threads == {<<>>, <<5>>}
Texts == {SpamText, HamText, <<>>}
KeywordArgs == {SpamArgs}
AdminArgs == {<<BootstrapAdmin>>}
UnmuteArgs == {<<BootstrapAdmin>>, <<Regular>>}

(* Spec: one chat, two users.  Updates are handled one at a time, each     *)
(* handler running to its end before the next update is taken (the         *)
(* Application is built without concurrent_updates); time passes at any    *)
(* moment.                                                                 *)
Next ==
    \/ Tick
    \/ \E u \in Users, c \in Chats, th \in Threads, txt \in Texts :
          Quiescent /\ filter_message(1, u, c, th, txt)
    \/ \E a \in MemberAnswers : filter_message_classified(1, a)
    \/ \E r \in Outcomes : mute_user_restricted(1, r)
    \/ \E r \in Outcomes : mute_user_notified(1, r)
    \/ \E r \in Outcomes : mute_user_warned(1, r)
    \/ \E r \in Outcomes : filter_message_deleted(1, r)
    \/ \E u \in Users, c \in Chats, args \in KeywordArgs :
          Quiescent /\ add_keyword_command(1, u, c, args)
    \/ \E u \in Users, c \in Chats, args \in KeywordArgs :
          Quiescent /\ remove_keyword_command(1, u, c, args)
    \/ \E u \in Users, c \in Chats, args \in AdminArgs :
          Quiescent /\ add_admin_command(1, u, c, args)
    \/ \E u \in Users, c \in Chats, args \in AdminArgs :
          Quiescent /\ force_add_admin_command(1, u, c, args)
    \/ \E u \in Users, c \in Chats, args \in AdminArgs :
          Quiescent /\ remove_admin_command(1, u, c, args)
    \/ \E u \in Users, c \in Chats, args \in UnmuteArgs :
          Quiescent /\ unmute_command(1, u, c, args)
    \/ \E r \in Outcomes : unmute_command_unrestricted(1, r)
    \/ \E u \in Users, c \in Chats : Quiescent /\ check_mutes_command(1, u, c)
    \/ \E r \in Outcomes : check_mutes_command_unrestricted(1, r)

Spec == Init /\ [][Next]_vars

(* SpecSweep: two chats and three muted (chat, user) pairs, for the sweep  *)
(* of check_mutes_command; the bootstrap user is the only admin and the    *)
(* only one to issue commands.  Updates are handled one at a time.         *)
SweepChats == {1, 2}
SweepSenders == {<<1, Regular>>, <<1, Other>>, <<2, Regular>>}

NextSweep ==
    \/ Tick
    \/ \E args \in AdminArgs :
          Quiescent /\ force_add_admin_command(1, BootstrapAdmin, 1, args)
    \/ \E c \in SweepChats, args \in KeywordArgs :
          Quiescent /\ add_keyword_command(1, BootstrapAdmin, c, args)
    \/ \E p \in SweepSenders :
          Quiescent /\ filter_message(1, p[2], p[1], <<5>>, SpamText)
    \/ \E a \in MemberAnswers : filter_message_classified(1, a)
    \/ \E r \in Outcomes : mute_user_restricted(1, r)
    \/ \E r \in Outcomes : mute_user_notified(1, r)
    \/ \E r \in Outcomes : mute_user_warned(1, r)
    \/ \E r \in Outcomes : filter_message_deleted(1, r)
    \/ \E c \in SweepChats : Quiescent /\ check_mutes_command(1, BootstrapAdmin, c)
    \/ \E r \in Outcomes : check_mutes_command_unrestricted(1, r)

SpecSweep == Init /\ [][NextSweep]_vars

(* SpecKw: the keyword commands, with arguments in both cases, repeated    *)
(* within a command and across commands, for two topics of one chat.       *)
Foo == <<"f", "o", "o">>
FOO == <<"F", "O", "O">>
Bar == <<"b", "a", "r">>
BAR == <<"B", "a", "R">>

AddArgs == {<<Topic5, Foo, Bar>>, <<Topic5, FOO>>, <<Topic5, BAR, Bar>>,
            <<Topic1, Foo>>, <<Topic5>>}
RemoveArgs == {<<Topic5, Foo>>, <<Topic5, BAR>>, <<Topic5, Foo, Bar>>,
               <<Topic1, FOO>>, <<Topic1, Bar>>, <<Topic5>>}

NextKw ==
    \/ \E u \in Users, args \in AdminArgs :
          Quiescent /\ force_add_admin_command(1, u, 1, args)
    \/ \E u \in Users, args \in AddArgs :
          Quiescent /\ add_keyword_command(1, u, 1, args)
    \/ \E u \in Users, args \in RemoveArgs :
          Quiescent /\ remove_keyword_command(1, u, 1, args)

SpecKw == Init /\ [][NextKw]_vars

(* SpecMatch: messages of a regular user against keyword lists of two      *)
(* topics in two chats, a supergroup and a group: texts that hold two      *)
(* keywords of a list, one, a keyword of another topic only, or none.  The *)
(* bootstrap user is the only admin.  Updates are handled one at a time.   *)
KwAb == <<"a", "b">>
KwB == <<"b">>
KwC == <<"c">>
MatchChats == {1, 2}
MatchAddArgs == {<<Topic5, KwAb>>, <<Topic5, KwB>>, <<Topic1, KwC>>}
MatchTexts == {<<"x", "A", "B">>, <<"B">>, <<"C">>, <<"x">>}

NextMatch ==
    \/ \E args \in AdminArgs :
          Quiescent /\ force_add_admin_command(1, BootstrapAdmin, 1, args)
    \/ \E c \in MatchChats, args \in MatchAddArgs :
          Quiescent /\ add_keyword_command(1, BootstrapAdmin, c, args)
    \/ \E c \in MatchChats, th \in Threads, txt \in MatchTexts :
          Quiescent /\ filter_message(1, Regular, c, th, txt)
    \/ \E a \in MemberAnswers : filter_message_classified(1, a)
    \/ \E r \in Outcomes : mute_user_restricted(1, r)
    \/ \E r \in Outcomes : mute_user_notified(1, r)
    \/ \E r \in Outcomes : mute_user_warned(1, r)
    \/ \E r \in Outcomes : filter_message_deleted(1, r)

SpecMatch == Init /\ [][NextMatch]_vars

(* SpecArgs: the commands with their arguments missing, with a user id     *)
(* that is no number, and well formed, issued by an admin and by a regular *)
(* user who can be muted.  Updates are handled one at a time.              *)
SevenX == <<"7", "x">>
Minus == <<"-">>
UserIdArgs == {<<>>, <<SevenX>>, <<Minus>>, <<BootstrapAdmin>>}
UnmuteIdArgs == {<<>>, <<SevenX>>, <<Minus>>, <<Regular>>}
ShortKeywordArgs == {<<>>, <<Topic5>>, SpamArgs}

NextArgs ==
    \/ \E u \in Users, args \in UserIdArgs :
          Quiescent /\ force_add_admin_command(1, u, 1, args)
    \/ \E u \in Users, args \in UserIdArgs :
          Quiescent /\ add_admin_command(1, u, 1, args)
    \/ \E u \in Users, args \in UserIdArgs :
          Quiescent /\ remove_admin_command(1, u, 1, args)
    \/ \E u \in Users, args \in ShortKeywordArgs :
          Quiescent /\ add_keyword_command(1, u, 1, args)
    \/ \E u \in Users, args \in ShortKeywordArgs :
          Quiescent /\ remove_keyword_command(1, u, 1, args)
    \/ Quiescent /\ filter_message(1, Regular, 1, <<5>>, SpamText)
    \/ \E a \in MemberAnswers : filter_message_classified(1, a)
    \/ \E r \in Outcomes : mute_user_restricted(1, r)
    \/ \E r \in Outcomes : mute_user_notified(1, r)
    \/ \E r \in Outcomes : mute_user_warned(1, r)
    \/ \E r \in Outcomes : filter_message_deleted(1, r)
    \/ \E u \in Users, args \in UnmuteIdArgs :
          Quiescent /\ unmute_command(1, u, 1, args)
    \/ \E r \in Outcomes : unmute_command_unrestricted(1, r)

SpecArgs == Init /\ [][NextArgs]_vars

(* SpecAdmins: the admin commands for three user ids, one of them also     *)
(* spelled with a leading zero, issued by the bootstrap user and by a      *)
(* user who may become an admin.  Updates are handled one at a time.       *)
ZeroSeven == <<"0", "7">>
AdminIdArgs == {<<BootstrapAdmin>>, <<Regular>>, <<ZeroSeven>>, <<Other>>}

NextAdmins ==
    \/ \E u \in Users, args \in AdminIdArgs :
          Quiescent /\ force_add_admin_command(1, u, 1, args)
    \/ \E u \in Users, args \in AdminIdArgs :
          Quiescent /\ add_admin_command(1, u, 1, args)
    \/ \E u \in Users, args \in AdminIdArgs :
          Quiescent /\ remove_admin_command(1, u, 1, args)

SpecAdmins == Init /\ [][NextAdmins]_vars

(* SpecBoot: every handler from the empty configuration, for the bootstrap *)
(* user and a user who may become an admin; the user id of an admin        *)
(* command is missing, no number, or one of the two.  Updates are handled  *)
(* one at a time.                                                          *)
BootIdArgs == {<<>>, <<SevenX>>, <<BootstrapAdmin>>, <<Regular>>}

NextBoot ==
    \/ Tick
    \/ \E u \in Users, args \in BootIdArgs :
          Quiescent /\ force_add_admin_command(1, u, 1, args)
    \/ \E u \in Users, args \in BootIdArgs :
          Quiescent /\ add_admin_command(1, u, 1, args)
    \/ \E u \in Users, args \in BootIdArgs :
          Quiescent /\ remove_admin_command(1, u, 1, args)
    \/ \E u \in Users, args \in KeywordArgs :
          Quiescent /\ add_keyword_command(1, u, 1, args)
    \/ \E u \in Users, args \in KeywordArgs :
          Quiescent /\ remove_keyword_command(1, u, 1, args)
    \/ \E u \in Users : Quiescent /\ filter_message(1, u, 1, <<5>>, SpamText)
    \/ \E a \in MemberAnswers : filter_message_classified(1, a)
    \/ \E r \in Outcomes : mute_user_restricted(1, r)
    \/ \E r \in Outcomes : mute_user_notified(1, r)
    \/ \E r \in Outcomes : mute_user_warned(1, r)
    \/ \E r \in Outcomes : filter_message_deleted(1, r)
    \/ \E u \in Users : Quiescent /\ unmute_command(1, u, 1, <<Regular>>)
    \/ \E r \in Outcomes : unmute_command_unrestricted(1, r)
    \/ \E u \in Users : Quiescent /\ check_mutes_command(1, u, 1)
    \/ \E r \in Outcomes : check_mutes_command_unrestricted(1, r)

SpecBoot == Init /\ [][NextBoot]_vars

(* SpecConc: updates are handled concurrently (concurrent_updates): a      *)
(* handler suspended at a Telegram call leaves the others free to start    *)
(* and to run, up to MaxHandlers at a time.  One chat, one regular user;   *)
(* only the restriction calls fail.                                        *)
NextConc ==
    \/ Tick
    \/ \E s \in Slots, args \in AdminArgs :
          force_add_admin_command(s, BootstrapAdmin, 1, args)
    \/ \E s \in Slots, args \in KeywordArgs :
          add_keyword_command(s, BootstrapAdmin, 1, args)
    \/ \E s \in Slots : filter_message(s, Regular, 1, <<5>>, SpamText)
    \/ \E s \in Slots : filter_message_classified(s, "member")
    \/ \E s \in Slots, r \in Outcomes : mute_user_restricted(s, r)
    \/ \E s \in Slots : mute_user_notified(s, "ok")
    \/ \E s \in Slots : mute_user_warned(s, "ok")
    \/ \E s \in Slots : filter_message_deleted(s, "ok")
    \/ \E s \in Slots : check_mutes_command(s, BootstrapAdmin, 1)
    \/ \E s \in Slots, r \in Outcomes : check_mutes_command_unrestricted(s, r)

SpecConc == Init /\ [][NextConc]_vars

(* ------------------------------- claims -------------------------------- *)

Finished(f) == f.pc \in {"done", "raised"}

\* the handler has made the call api and it ended in one of the outcomes
Made(f, api, outcomes) ==
    \E i \in DOMAIN f.calls : f.calls[i].api = api /\ f.calls[i].res \in outcomes

\* how many calls of api the handler has made for the user
Count(f, api, user) ==
    Cardinality({i \in DOMAIN f.calls :
                    /\ f.calls[i].api = api
                    /\ f.calls[i].chat = f.chat
                    /\ f.calls[i].user = user})

\* the ledger d holds a record of key that expires at t
Expires(d, key, t) == \E i \in DOMAIN d : d[i].k = key /\ FromIsoFormat(d[i].v) = t

Recorded(d, key) == \E i \in DOMAIN d : d[i].k = key

\* the ledger d without its records of key
Without(d, key) == SelectSeq(d, LAMBDA e : e.k # key)

\* a filter_message whose text held a keyword of its location
Matched(f) == f.op = "filter_message" /\ f.kw # <<>>

\* the sender was in AdminList, or the platform called them an admin
SenderIsAdmin(f) ==
    \/ \E i \in DOMAIN f.cfg0.admin_users : f.cfg0.admin_users[i] = f.user
    \/ Made(f, "get_chat_member", {"administrator", "creator"})

(* C1: when filter_message has handled a message of a regular user that    *)
(* holds a keyword of its location and the restrict call succeeded, the    *)
(* ledger (and the snapshot) holds a record for (chat, user) that expires  *)
(* twelve hours after the time of handling, and that expiry is the         *)
(* until_date the restrict call was given.                                 *)
C1_MuteRecordsExpiry ==
    \A s \in Slots :
        LET f == frames[s]
            key == <<f.chat, f.user>>
        IN  (Matched(f) /\ Finished(f) /\ Made(f, "restrict", {"ok"}))
            => /\ ~SenderIsAdmin(f)
               /\ Expires(config.muted_users, key, f.at + 12)
               /\ Expires(file.muted_users, key, f.at + 12)
               /\ \A i \in DOMAIN f.calls :
                     f.calls[i].api = "restrict"
                     => /\ f.calls[i].until = f.at + 12
                        /\ f.calls[i].chat = f.chat
                        /\ f.calls[i].user = f.user

C1_Witness ==
    LET f == frames[1]
    IN  /\ Matched(f) /\ f.pc = "done" /\ Made(f, "restrict", {"ok"})
        /\ f.user = Regular
        /\ f.at > 0
        /\ Expires(config.muted_users, <<f.chat, f.user>>, f.at + 12)

C3_AdminsNeverMuted ==
    \A s \in Slots :
        LET f == frames[s]
        IN  (f.op = "filter_message" /\ SenderIsAdmin(f))
            => /\ ~Made(f, "restrict", Outcomes)
               /\ f.pc \in {"get_chat_member", "done"}
               /\ config.muted_users = f.cfg0.muted_users
               /\ file.muted_users = f.cfg0.muted_users

C3_Witness ==
    LET f == frames[1]
    IN  /\ Matched(f) /\ f.pc = "done"
        /\ f.cfg0.admin_users = <<BootstrapAdmin>> /\ f.user = Regular
        /\ Made(f, "get_chat_member", {"creator"})

(* C4: when the restrict call of a mute fails, the ledger and its snapshot *)
(* are what they were before the message was handled.                      *)
C4_FailedMuteLeavesLedger ==
    \A s \in Slots :
        LET f == frames[s]
        IN  (Matched(f) /\ Finished(f) /\ Made(f, "restrict", {"bad", "err"}))
            => /\ config.muted_users = f.cfg0.muted_users
               /\ file.muted_users = f.cfg0.muted_users

C4_Witness ==
    LET f == frames[1]
    IN  /\ Matched(f) /\ f.pc = "done" /\ Made(f, "restrict", {"bad"})
        /\ Recorded(f.cfg0.muted_users, <<f.chat, f.user>>)
        /\ f.at + 12 # FromIsoFormat(DictGet(f.cfg0.muted_users, <<f.chat, f.user>>))

(* C5: the ledger never holds two records for one (chat, user), and a mute *)
(* of a user who has a record replaces its expiry by the time of the new   *)
(* mute plus twelve hours, the other records staying as they are.          *)
C5_OneRecordNoStacking ==
    /\ \A i, j \in DOMAIN config.muted_users :
          config.muted_users[i].k = config.muted_users[j].k => i = j
    /\ \A i, j \in DOMAIN file.muted_users :
          file.muted_users[i].k = file.muted_users[j].k => i = j
    /\ \A s \in Slots :
          LET f == frames[s]
              key == <<f.chat, f.user>>
              old == f.cfg0.muted_users
          IN  (/\ Matched(f) /\ Finished(f) /\ Made(f, "restrict", {"ok"})
               /\ Recorded(old, key))
              => /\ Len(config.muted_users) = Len(old)
                 /\ \A i \in DOMAIN old :
                       IF old[i].k = key
                       THEN /\ config.muted_users[i].k = key
                            /\ FromIsoFormat(config.muted_users[i].v) = f.at + 12
                       ELSE config.muted_users[i] = old[i]

C5_Witness ==
    LET f == frames[1]
        key == <<f.chat, f.user>>
    IN  /\ Matched(f) /\ f.pc = "done" /\ Made(f, "restrict", {"ok"})
        /\ \E i \in DOMAIN f.cfg0.muted_users :
              /\ f.cfg0.muted_users[i].k = key
              /\ f.at < FromIsoFormat(f.cfg0.muted_users[i].v)
              /\ f.at + 12 > FromIsoFormat(f.cfg0.muted_users[i].v)
        /\ Expires(config.muted_users, key, f.at + 12)

(* C6: an unmute by a bot admin makes the unrestrict call once, whether or *)
(* not the ledger had a record; it leaves the ledger and the snapshot      *)
(* without a record for the pair and with every other record as it was;    *)
(* an unmute of a pair without a record changes nothing and, its call      *)
(* having succeeded, answers as any other unmute.                          *)
C6_UnmuteIdempotent ==
    \A s \in Slots :
        LET f == frames[s]
            key == <<f.chat, f.target>>
            old == f.cfg0.muted_users
        IN  (f.op = "unmute" /\ f.target # <<>>)
            => /\ \/ f.pc = "unrestrict" /\ f.calls = <<>>
                  \/ /\ Finished(f)
                     /\ Len(f.calls) = 1
                     /\ Count(f, "unrestrict", f.target) = 1
               /\ ~Recorded(config.muted_users, key)
               /\ ~Recorded(file.muted_users, key)
               /\ config.muted_users = Without(old, key)
               /\ file.muted_users = Without(old, key)
               /\ ~Recorded(old, key)
                    => /\ config = f.cfg0
                       /\ Made(f, "unrestrict", {"ok"})
                            => f.pc = "done" /\ f.out = "unmuted"

C6_Witness ==
    LET f == frames[1]
    IN  /\ f.op = "unmute" /\ f.pc = "done" /\ f.out = "unmuted"
        /\ f.target = Regular
        /\ Recorded(f.cfg0.muted_users, <<f.chat, f.target>>)
        /\ ~Recorded(config.muted_users, <<f.chat, f.target>>)

(* C7: a sweep that runs alone removes the records of its chat that expire *)
(* at or before the time the sweep read, and no other record, and makes    *)
(* one unrestrict call for each user it removes and no other call.         *)
C7_SweepRemovesExpired ==
    \A s \in Slots :
        LET f == frames[s]
            old == f.cfg0.muted_users
            Due(e) == e.k[1] = f.chat /\ FromIsoFormat(e.v) <= f.cur
            due == {i \in DOMAIN old : Due(old[i])}
        IN  (f.op = "check_mutes" /\ Finished(f) /\ f.out # "not_admin")
            => /\ f.pc = "done"
               /\ config.muted_users = SelectSeq(old, LAMBDA e : ~Due(e))
               /\ file = config
               /\ Len(f.calls) = Cardinality(due)
               /\ \A i \in due : Count(f, "unrestrict", old[i].k[2]) = 1

C7_Witness ==
    LET f == frames[1]
        old == f.cfg0.muted_users
    IN  /\ f.op = "check_mutes" /\ f.pc = "done" /\ f.chat = 1
        /\ \E i \in DOMAIN old :
              old[i].k = <<1, Regular>> /\ FromIsoFormat(old[i].v) <= f.cur
        /\ \E i \in DOMAIN old :
              old[i].k = <<1, Other>> /\ FromIsoFormat(old[i].v) > f.cur
        /\ \E i \in DOMAIN old :
              old[i].k = <<2, Regular>> /\ FromIsoFormat(old[i].v) <= f.cur
        /\ ~Recorded(config.muted_users, <<1, Regular>>)
        /\ Recorded(config.muted_users, <<1, Other>>)
        /\ Recorded(config.muted_users, <<2, Regular>>)

C9_LedgerMatchesPlatform ==
    Quiescent
    => {config.muted_users[i].k : i \in DOMAIN config.muted_users} = platformMuted

(* C10: every keyword list holds lower-case strings only and none twice;   *)
(* add_keyword_command reports as already existing each argument that the  *)
(* list held or that came earlier in the same command, appends the others  *)
(* once each, and leaves the list as it was when it adds none.             *)
C10_KeywordListsUnique ==
    /\ \A c \in DOMAIN config.topic_keywords :
          \A t \in DOMAIN config.topic_keywords[c] :
             LET list == config.topic_keywords[c][t]
             IN  /\ \A i, j \in DOMAIN list : list[i] = list[j] => i = j
                 /\ \A i \in DOMAIN list : \A n \in DOMAIN list[i] :
                       \A u \in DOMAIN UpperChars : list[i][n] # UpperChars[u]
    /\ \A s \in Slots :
          LET f == frames[s]
              tk0 == f.cfg0.topic_keywords
              old == IF f.chat \in DOMAIN tk0 /\ f.args[1] \in DOMAIN tk0[f.chat]
                     THEN tk0[f.chat][f.args[1]] ELSE <<>>
              new == config.topic_keywords[f.chat][f.args[1]]
              In(x, l) == \E i \in DOMAIN l : l[i] = x
          IN  (f.op = "add_keyword" /\ f.out = "added")
              => /\ new = old \o f.added
                 /\ Len(f.added) + Len(f.skipped) = Len(f.args) - 1
                 /\ \A n \in 2..Len(f.args) :
                       LET kw == Lower(f.args[n])
                           earlier == \E m \in 2..(n - 1) : Lower(f.args[m]) = kw
                       IN  /\ In(kw, new)
                           /\ (In(kw, old) \/ earlier) => In(kw, f.skipped)
                           /\ In(kw, old) => ~In(kw, f.added)
                 /\ (\A n \in 2..Len(f.args) : In(Lower(f.args[n]), old))
                       => new = old /\ f.added = <<>>
                 /\ file = config

C10_Witness ==
    LET f == frames[1]
    IN  /\ f.op = "add_keyword" /\ f.out = "added"
        /\ f.args = <<Topic5, Foo, Bar>>
        /\ f.added = <<>>
        /\ f.skipped = <<Foo, Bar>>
        /\ config.topic_keywords[1][Topic5] = <<Foo, Bar>>

(* C11: remove_keyword_command that finds its keyword in the list of its   *)
(* chat and topic leaves that list as it was without the keyword, the      *)
(* other keywords in their order, and every other list, AdminList and the  *)
(* ledger as they were, and saves; one that does not find the chat, the    *)
(* topic or the keyword answers not found and leaves config and file as    *)
(* they were.                                                              *)
C11_RemoveKeywordFrame ==
    \A s \in Slots :
       LET f == frames[s]
           tk0 == f.cfg0.topic_keywords
           known == f.chat \in DOMAIN tk0 /\ f.args[1] \in DOMAIN tk0[f.chat]
           old == IF known THEN tk0[f.chat][f.args[1]] ELSE <<>>
           present == \E i \in DOMAIN old : old[i] = f.kw
       IN  (f.op = "remove_keyword" /\ f.out \in {"removed", "not_found"})
           => /\ f.out = "removed" <=> present
              /\ f.out = "removed"
                    => /\ config = [f.cfg0 EXCEPT !.topic_keywords[f.chat][f.args[1]] =
                                       SelectSeq(old, LAMBDA k : k # f.kw)]
                       /\ file = config
              /\ f.out = "not_found"
                    => /\ config = f.cfg0
                       /\ file = f.cfg0

C11_Witness ==
    LET f == frames[1]
    IN  /\ f.op = "remove_keyword" /\ f.out = "removed"
        /\ f.args = <<Topic5, BAR>>
        /\ f.cfg0.topic_keywords[1][Topic5] = <<Foo, Bar>>
        /\ Topic1 \in DOMAIN f.cfg0.topic_keywords[1]
        /\ config.topic_keywords[1][Topic5] = <<Foo>>
        /\ config.topic_keywords[1][Topic1] = f.cfg0.topic_keywords[1][Topic1]

\* the handler has asked the platform to restrict or to unrestrict a member
Restricts(f) ==
    \E i \in DOMAIN f.calls : f.calls[i].api \in {"restrict", "unrestrict"}

\* the issuer of the command was in AdminList when the handler began
IssuerInAdminList(f) ==
    \E i \in DOMAIN f.cfg0.admin_users : f.cfg0.admin_users[i] = f.user

\* the commands that change the keyword store, AdminList or the ledger
AdminListCommands ==
    {"add_keyword", "remove_keyword", "add_admin", "remove_admin",
     "unmute", "check_mutes"}

(* C12, as stated: a command that changes state, forceaddadmin among them, *)
(* issued by a user who is not in AdminList leaves the keyword store,      *)
(* AdminList and the ledger as they were and asks for no restriction or    *)
(* unrestriction.                                                          *)
C12_EveryCommandGatedOnAdminList ==
    LET f == frames[1]
    IN  (f.op \in AdminListCommands \cup {"forceaddadmin"} /\ ~IssuerInAdminList(f))
        => config = f.cfg0 /\ ~Restricts(f)

(* C12, amended: add_keyword, remove_keyword, add_admin, remove_admin,     *)
(* unmute and check_mutes issued by a user who is not in AdminList answer  *)
(* that the issuer is no admin, leave config as it was and make no call;   *)
(* forceaddadmin is gated on the hardcoded user id alone: issued by anyone *)
(* else it changes nothing, issued by that user it adds its argument even  *)
(* when the issuer is not in AdminList.                                    *)
C12_CommandsGated ==
    LET f == frames[1]
    IN  /\ (f.op \in AdminListCommands /\ ~IssuerInAdminList(f))
           => /\ f.out = "not_admin"
              /\ config = f.cfg0
              /\ f.calls = <<>>
        /\ (f.op = "forceaddadmin" /\ f.user # BootstrapAdmin)
           => /\ f.out = "not_authorized"
              /\ config = f.cfg0
              /\ f.calls = <<>>
        /\ (f.op = "forceaddadmin" /\ f.user = BootstrapAdmin /\ f.out = "added")
           => /\ config = [f.cfg0 EXCEPT !.admin_users = Append(@, f.target)]
              /\ f.calls = <<>>

C12_Witness ==
    LET f == frames[1]
    IN  /\ f.op = "unmute" /\ f.user = Regular /\ f.args = <<Regular>>
        /\ ~IssuerInAdminList(f)
        /\ Recorded(f.cfg0.muted_users, MuteKey(1, Regular))
        /\ MuteKey(1, Regular) \in platformMuted
        /\ f.out = "not_admin"

(* C13: a message that holds a keyword of its location and whose sender is *)
(* in AdminList is classified without a get_chat_member query: the handler *)
(* neither waits for one nor has made one.                                 *)
C13_AdminListSkipsQuery ==
    LET f == frames[1]
    IN  (Matched(f) /\ IssuerInAdminList(f))
        => /\ f.pc # "get_chat_member"
           /\ \A i \in DOMAIN f.calls : f.calls[i].api # "get_chat_member"

(* C14: when get_chat_member fails for a sender who is not in AdminList,   *)
(* the sender is taken for a regular user: the handler goes on to          *)
(* mute_user, asks for the restriction until twelve hours after its time,  *)
(* and a restriction that succeeds is recorded with that expiry.           *)
C14_FailedQueryMeansRegular ==
    LET f == frames[1]
        key == MuteKey(f.chat, f.user)
    IN  (Matched(f) /\ ~IssuerInAdminList(f) /\ Made(f, "get_chat_member", {"err"}))
        => /\ f.out # "admin_exempt"
           /\ f.pc \in {"restrict", "send_message", "send_warning",
                        "delete_message", "done", "raised"}
           /\ f.until = f.at + MuteHours
           /\ f.pc # "restrict"
                 => \E i \in DOMAIN f.calls :
                       /\ f.calls[i].api = "restrict"
                       /\ f.calls[i].chat = f.chat
                       /\ f.calls[i].user = f.user
                       /\ f.calls[i].until = f.at + MuteHours
           /\ Made(f, "restrict", {"ok"})
                 => /\ Expires(config.muted_users, key, f.at + MuteHours)
                    /\ key \in platformMuted

C14_Witness ==
    LET f == frames[1]
    IN  /\ Matched(f) /\ f.user = Regular /\ f.pc = "done"
        /\ ~IssuerInAdminList(f)
        /\ Made(f, "get_chat_member", {"err"})
        /\ Made(f, "restrict", {"ok"})
        /\ Expires(config.muted_users, MuteKey(1, Regular), f.at + MuteHours)

\* the keyword k occurs in the text
Occurs(k, text) ==
    \E i \in 0..(Len(text) - Len(k)) :
       \A n \in 1..Len(k) : text[i + n] = k[n]

C15_WitnessOtherTopic ==
    LET f == frames[1]
    IN  /\ f.op = "filter_message" /\ f.chat = 1 /\ f.topic = Topic5
        /\ f.text = <<"C">>
        /\ KeywordsFor(f.cfg0, 1, Topic5) = <<KwAb, KwB>>
        /\ KeywordsFor(f.cfg0, 1, Topic1) = <<KwC>>
        /\ f.out = "no_match"

(* C16: whenever no handler is between its start and its end, the file    *)
(* holds what the config in memory holds: keyword lists, AdminList and     *)
(* ledger, whatever commands and messages came before and whatever their   *)
(* calls answered.                                                         *)
C16_FileTracksConfig ==
    Quiescent => file = config

\* a sweep whose unrestrict call failed has removed a record, after a mute
\* whose notification failed
C16_Witness ==
    LET f == frames[1]
    IN  /\ Quiescent
        /\ f.op = "check_mutes" /\ f.pc = "done"
        /\ Made(f, "unrestrict", {"bad", "err"})
        /\ Len(f.cfg0.muted_users) = 2
        /\ config.muted_users # f.cfg0.muted_users
        /\ config.topic_keywords # <<>>
        /\ config.admin_users # <<>>
        /\ file = config

Calls(f, api) == Cardinality({i \in DOMAIN f.calls : f.calls[i].api = api})

(* C18: the handling of one message makes at most one get_chat_member      *)
(* query, one restrict call, one notification, one warning and one         *)
(* delete_message request, whatever the calls answer and however many      *)
(* keywords of the list occur in the text: the handler ends with the first *)
(* keyword that occurs and no call is made again.                          *)
C18_OneAttemptPerMessage ==
    LET f == frames[1]
    IN  f.op = "filter_message"
        => /\ Calls(f, "get_chat_member") <= 1
           /\ Calls(f, "restrict") <= 1
           /\ Calls(f, "send_message") <= 1
           /\ Calls(f, "send_warning") <= 1
           /\ Calls(f, "delete_message") <= 1
           /\ Made(f, "delete_message", Outcomes) => f.pc = "done"
           /\ \A i \in DOMAIN f.calls : f.calls[i].user = f.user /\ f.calls[i].chat = f.chat

\* two keywords of the list occur in the text and the restriction was
\* refused: one query, one restrict call, one delete request
C18_Witness ==
    LET f == frames[1]
        list == KeywordsFor(f.cfg0, f.chat, f.topic)
    IN  /\ f.op = "filter_message" /\ f.pc = "done"
        /\ list = <<KwAb, KwB>>
        /\ Occurs(KwAb, Lower(f.text)) /\ Occurs(KwB, Lower(f.text))
        /\ Made(f, "restrict", {"bad"})
        /\ Made(f, "delete_message", {"bad", "err"})
        /\ Calls(f, "get_chat_member") = 1
        /\ Calls(f, "restrict") = 1
        /\ Calls(f, "delete_message") = 1

(* C19: no failure of a call made while a message is handled escapes       *)
(* filter_message: the handler never ends by raising, whatever the         *)
(* restrict call, the notification, the warning or the delete request      *)
(* answer.                                                                 *)
C19_NoCallFailureEscapes ==
    LET f == frames[1]
    IN  f.op = "filter_message" => f.pc # "raised"

\* the string is no decimal number: it holds a character that is neither a
\* digit nor a sign, or no digit at all
NotANumber(str) ==
    LET digits == {"0", "1", "2", "3", "4", "5", "6", "7", "8", "9"}
    IN  \/ \E i \in DOMAIN str : str[i] \notin digits \cup {"+", "-"}
        \/ \A i \in DOMAIN str : str[i] \notin digits

\* the arguments of the command are missing or its user id is no number
Malformed(f) ==
    \/ /\ f.op \in {"add_keyword", "remove_keyword"}
       /\ Len(f.args) < 2
    \/ /\ f.op \in {"add_admin", "forceaddadmin", "remove_admin", "unmute"}
       /\ f.args = <<>> \/ NotANumber(f.args[1])

\* the issuer passes the test the command begins with
PassesGate(f) ==
    IF f.op = "forceaddadmin" THEN f.user = BootstrapAdmin ELSE IssuerInAdminList(f)

(* C20: a command whose arguments are missing, or whose user id is no      *)
(* number (add_admin, forceaddadmin, remove_admin, unmute), ends with a    *)
(* reply and nothing else: usage or not-a-number for an issuer the command *)
(* admits, the refusal for another; config and file are as they were and   *)
(* no call is made.                                                        *)
C20_MalformedArgsChangeNothing ==
    LET f == frames[1]
    IN  Malformed(f)
        => /\ f.pc = "done"
           /\ IF ~PassesGate(f) THEN f.out \in {"not_admin", "not_authorized"}
              ELSE IF f.op \in {"add_keyword", "remove_keyword"} \/ f.args = <<>>
              THEN f.out = "usage"
              ELSE f.out = "not_a_number"
           /\ config = f.cfg0
           /\ file = f.cfg0
           /\ f.calls = <<>>

\* an admin's /unmute 7x while user 7 is muted and recorded
C20_Witness ==
    LET f == frames[1]
    IN  /\ f.op = "unmute" /\ f.args = <<SevenX>>
        /\ IssuerInAdminList(f)
        /\ f.out = "not_a_number"
        /\ Recorded(config.muted_users, MuteKey(1, Regular))
        /\ MuteKey(1, Regular) \in platformMuted
        /\ config.topic_keywords # <<>>

(* C21: AdminList holds no user id twice, each id as one integer whatever  *)
(* its spelling in the command; add_admin and forceaddadmin of an id that  *)
(* is in the list leave the list as it was, and of one that is not append  *)
(* it; after remove_admin of an id that is in the list, the id is in the   *)
(* list no more and the others are, in their order.                        *)
C21_AdminListUnique ==
    LET f == frames[1]
        admins == config.admin_users
        old == f.cfg0.admin_users
        present == \E i \in DOMAIN old : old[i] = f.target
    IN  /\ \A i, j \in DOMAIN admins : admins[i] = admins[j] => i = j
        /\ \A i \in DOMAIN admins :
              admins[i] = <<"0">> \/ Head(admins[i]) \notin {"0", "+"}
        /\ (f.op \in {"add_admin", "forceaddadmin"} /\ f.out \in {"added", "already"})
              => /\ f.out = "already" <=> present
                 /\ present => admins = old
                 /\ ~present => admins = Append(old, f.target)
        /\ (f.op = "remove_admin" /\ f.out \in {"removed", "not_found"})
              => /\ f.out = "removed" <=> present
                 /\ \A i \in DOMAIN admins : admins[i] # f.target
                 /\ admins = SelectSeq(old, LAMBDA a : a # f.target)

\* /add_admin 07 while 7 is an admin, then as the frame shows, no second 7
C21_Witness ==
    LET f == frames[1]
    IN  /\ f.op = "add_admin" /\ f.args = <<ZeroSeven>>
        /\ f.out = "already"
        /\ f.target = Regular
        /\ Len(config.admin_users) = 3

(* C22: the warning that the user could not be muted is sent only when the *)
(* restrict call failed: a handler whose restrict call succeeded, and      *)
(* whose record was stored, neither sends the warning nor is about to.     *)
C22_WarningOnlyAfterFailedRestrict ==
    LET f == frames[1]
    IN  (f.op = "filter_message" /\ Made(f, "restrict", {"ok"}))
        => /\ f.pc # "send_warning"
           /\ ~Made(f, "send_warning", Outcomes)

RECURSIVE SumLen(_, _)
SumLen(lists, keys) ==
    IF keys = {} THEN 0
    ELSE LET k == CHOOSE x \in keys : TRUE
         IN  Len(lists[k]) + SumLen(lists, keys \ {k})

RECURSIVE StoreSize(_, _)
StoreSize(tk, chats) ==
    IF chats = {} THEN 0
    ELSE LET c == CHOOSE x \in chats : TRUE
         IN  SumLen(tk[c], DOMAIN tk[c]) + StoreSize(tk, chats \ {c})

(* C24: no stored keyword holds a space, add_keyword_command storing each  *)
(* argument after the topic id as a keyword of its own;                    *)
(* remove_keyword_command removes at most one keyword, and with two or     *)
(* more arguments after the topic id an admin is told not found and the    *)
(* store stays as it was.                                                  *)
C24_RemoveJoinsArguments ==
    LET f == frames[1]
        tk == config.topic_keywords
        tk0 == f.cfg0.topic_keywords
    IN  /\ \A c \in DOMAIN tk : \A t \in DOMAIN tk[c] : \A i \in DOMAIN tk[c][t] :
              \A n \in DOMAIN tk[c][t][i] : tk[c][t][i][n] # " "
        /\ (f.op = "add_keyword" /\ f.out = "added")
              => \A n \in 2..Len(f.args) :
                    \E i \in DOMAIN tk[f.chat][f.args[1]] :
                       tk[f.chat][f.args[1]][i] = Lower(f.args[n])
        /\ f.op = "remove_keyword"
              => /\ StoreSize(tk0, DOMAIN tk0) - StoreSize(tk, DOMAIN tk) \in {0, 1}
                 /\ (Len(f.args) >= 3 /\ IssuerInAdminList(f))
                       => f.out = "not_found" /\ config = f.cfg0 /\ file = f.cfg0

\* /remove_keyword 5 foo bar while the list holds foo and bar
C24_Witness ==
    LET f == frames[1]
    IN  /\ f.op = "remove_keyword" /\ f.args = <<Topic5, Foo, Bar>>
        /\ IssuerInAdminList(f)
        /\ KeywordsFor(f.cfg0, 1, Topic5) = <<Foo, Bar>>
        /\ f.out = "not_found"
        /\ KeywordsFor(config, 1, Topic5) = <<Foo, Bar>>

\* the step is the command op, issued by someone who passes gate
StepOf(ops, gate) ==
    /\ frames'[1].op \in ops
    /\ frames'[1].cfg0 = config
    /\ gate

(* C25: while the configuration is the empty one that load_config creates, *)
(* no message and no command changes config, file or the platform's        *)
(* restrictions, makes a call or stays suspended in one, but forceaddadmin *)
(* of a number by the hardcoded user id, which makes that number the one   *)
(* admin; and AdminList changes only in a step of add_admin or             *)
(* remove_admin whose issuer is in it, or of forceaddadmin of the          *)
(* hardcoded user id.                                                      *)
C25_Bootstrap ==
    [][LET g == frames'[1]
       IN  /\ (/\ config = EmptyConfig
               /\ \/ config' # config
                  \/ file' # file
                  \/ platformMuted' # platformMuted
                  \/ InFlight(g)
                  \/ (g # frames[1] /\ g.calls # <<>>))
              => /\ StepOf({"forceaddadmin"}, g.user = BootstrapAdmin)
                 /\ g.args # <<>> /\ ~NotANumber(g.args[1])
                 /\ config' = [config EXCEPT !.admin_users = <<g.target>>]
                 /\ g.calls = <<>>
           /\ config'.admin_users # config.admin_users
              => \/ StepOf({"add_admin", "remove_admin"},
                           \E i \in DOMAIN config.admin_users :
                              config.admin_users[i] = g.user)
                 \/ StepOf({"forceaddadmin"}, g.user = BootstrapAdmin)
      ]_vars

\* before the bootstrap: the hardcoded user's own /add_admin is refused
C25_Witness ==
    LET f == frames[1]
    IN  /\ config = EmptyConfig /\ file = EmptyConfig /\ platformMuted = {}
        /\ f.op = "add_admin" /\ f.user = BootstrapAdmin
        /\ f.args = <<BootstrapAdmin>>
        /\ f.out = "not_admin"

\* the bootstrap: the first change of the configuration
C25_WitnessBootstrapped ==
    LET f == frames[1]
    IN  /\ f.op = "forceaddadmin" /\ f.user = BootstrapAdmin
        /\ f.cfg0 = EmptyConfig
        /\ f.out = "added"
        /\ config = [EmptyConfig EXCEPT !.admin_users = <<Regular>>]

====
